---- MODULE Spec2Model ----
(***************************************************************************)
(* Model of the rtsp2browser gateway (proxy-server crate).                 *)
(*                                                                         *)
(* One proxy session (RTSPProxy::handle_connection) is modelled as a state *)
(* machine: the control loop with its two select! arms, the inner drain    *)
(* loops over the request / response buffers, the cleanup after the loop,  *)
(* and the relay tasks (forward_udp) it spawns.                            *)
(*                                                                         *)
(* RTSP messages are modelled after parsing: a message is a record with    *)
(* its start-line fields and a header map (HashMap<String,String>, here a  *)
(* function from header name to value).  A header value is a sequence of   *)
(* string tokens so that format!() is concatenation and split(';') is a    *)
(* scan for the ";" token.                                                 *)
(***************************************************************************)
EXTENDS Integers, Sequences, FiniteSets, TLC

VARIABLES
    overflow_checks,  \* build profile: TRUE = integer overflow panics, FALSE = wraps
    backend,          \* TransportType variant behind the Transport
    pc,               \* position of handle_connection
    next_channel_id,  \* proxy.rs:56
    pending_setups,   \* proxy.rs:57, VecDeque<PendingSetup>
    session_id,       \* proxy.rs:58, Option<String>: <<>> is None, <<v>> is Some(v)
    cancelled,        \* state of cancel_token (proxy.rs:61)
    cancel_calls,     \* number of calls of cancel_token.cancel()
    wt_buf,           \* proxy.rs:64, complete requests buffered and not yet parsed
    tcp_buf,          \* proxy.rs:65, complete responses buffered and not yet parsed
    cur_resp,         \* the response between its processing and its write_control
    relays,           \* the spawned forward_udp tasks, in spawn order
    data_lock,        \* holder of the WebSocket data mutex (index in relays, 0 = free)
    last_write,       \* the write the latest step of handle_connection made, if any
    dgram_last,       \* the last datagram handed to the transport
    n_dgrams,         \* history: datagrams handed to the transport so far
    n_pkts,           \* history: UDP packets received by the relays so far
    n_teardowns,      \* history: TEARDOWN requests the gateway made up and sent
    setup_log,        \* history: the PendingSetup of every intercepted SETUP, in order
    outstanding,      \* history: methods of the requests the origin has not answered yet
    n_xport,          \* history: 200 responses with a Transport header processed so far
    in_order,         \* history: each of them came after the SETUP of the same rank
    n_msgs,           \* history: messages read from the browser and the origin so far
    lost,             \* history: per peer, a message taken from the buffer was not written to it
    skipped_frames,   \* history: non-text, non-close frames read_control got
    codec_side,       \* which parser the codec run applies: "request" or "response"
    codec_stream,     \* the messages a peer sends in the codec run, as byte strings
    codec_read,       \* bytes of the stream read into the buffer so far
    codec_adv,        \* bytes the drain loop has advanced the buffer by
    codec_out,        \* the (message, consumed) pairs parse has returned, in order
    codec_res,        \* what the latest parse call returned
    codec_rt,         \* the latest to_bytes / parse round trip
    registry,         \* server.rs:27, SessionRegistry: session id -> SessionState
    conns,            \* the WebSocket connections accepted so far, and how each ended
    started           \* the proxy sessions started for paired connections, in order

vars == <<overflow_checks, backend, pc, next_channel_id, pending_setups,
          session_id, cancelled, cancel_calls, wt_buf, tcp_buf, cur_resp, relays,
          data_lock, last_write, dgram_last, n_dgrams, n_pkts, n_teardowns,
          setup_log, outstanding, n_xport, in_order, n_msgs,
          lost, skipped_frames, codec_side, codec_stream, codec_read, codec_adv,
          codec_out, codec_res, codec_rt, registry, conns, started>>

build_vars == <<overflow_checks, backend>>
ctl_vars == <<next_channel_id, pending_setups, session_id, cancelled, cancel_calls>>
relay_vars == <<relays, data_lock, dgram_last, n_dgrams, n_pkts>>
resp_hist == <<n_xport, in_order>>
codec_vars == <<codec_side, codec_stream, codec_read, codec_adv, codec_out, codec_res, codec_rt>>
reg_vars == <<registry, conns, started>>
proxy_vars_of_session ==
    <<overflow_checks, backend, pc, next_channel_id, pending_setups, session_id,
      cancelled, cancel_calls, wt_buf, tcp_buf, cur_resp, relays, data_lock,
      last_write, dgram_last, n_dgrams, n_pkts, n_teardowns, setup_log, outstanding,
      n_xport, in_order, n_msgs, lost, skipped_frames>>

-----------------------------------------------------------------------------
(* Bounds of the model                                                     *)

MaxMsgs == 5          \* messages (requests and responses) read in a session
MaxBatch == 2         \* complete messages one read may deliver
MaxPackets == 2       \* UDP packets the relays of a session receive
MaxAllocSetups == 130 \* SETUPs of the allocator run (SpecAlloc)
MaxRelayMsgs == 3     \* messages read in a session of SpecRelay
PortBase == 40000     \* lowest port the OS hands out for bind("0.0.0.0:0")
MaxStreamMsgs == 2    \* messages of the stream of a codec run (SpecCodec)
MaxConns == 3         \* WebSocket connections a rendezvous run accepts (SpecRendezvous)

(* Program constants                                                       *)

U8Modulus == 256      \* channel ids are u8 (PendingSetup.rtp_channel_id)

-----------------------------------------------------------------------------
(* Option<T>                                                               *)

None == <<>>
Some(x) == <<x>>

(* The origin URL of the session (RTSPProxy.rtsp_url)                      *)
rtsp_url == "rtsp://o/s"

-----------------------------------------------------------------------------
(* Messages on the wire                                                    *)

ClientTransport == <<"RTP/AVP", ";", "unicast", ";", "client_port=", "9000", "-", "9001">>
ServerTransport == <<"RTP/AVP", ";", "unicast", ";", "server_port=", "7000", "-", "7001">>
SessionValue == <<"12345678", ";", "timeout=60">>

Malformed == [wire |-> "malformed"]

\* A request as the browser sends it.  tname is the spelling of its Transport
\* header name, "" for a request without one.
Request(method, tname) ==
    [wire |-> "ok", method |-> method, path |-> rtsp_url, version |-> "RTSP/1.0",
     headers |-> IF tname = "" THEN ("CSeq" :> <<"1">>)
                 ELSE ("CSeq" :> <<"1">>) @@ (tname :> ClientTransport)]

ReqKinds == {"SETUP_T", "SETUP_t", "SETUP_none", "PLAY", "malformed"}

ReqOfKind(k) ==
    CASE k = "SETUP_T"    -> Request("SETUP", "Transport")
      [] k = "SETUP_t"    -> Request("SETUP", "transport")
      [] k = "SETUP_none" -> Request("SETUP", "")
      [] k = "PLAY"       -> Request("PLAY", "")
      [] OTHER            -> Malformed

\* A response as the origin sends it.
Response(status, with_transport, session) ==
    [wire |-> "ok", version |-> "RTSP/1.0", status_code |-> status,
     headers |-> ("CSeq" :> <<"1">>)
                 @@ (IF with_transport THEN ("Transport" :> ServerTransport) ELSE <<>>)
                 @@ (IF session = None THEN <<>> ELSE ("Session" :> session[1]))]

RespKinds == {"200_T_S", "461", "200_S_empty", "malformed"}

RespOfKind(k) ==
    CASE k = "200_T_S"     -> Response(200, TRUE, Some(SessionValue))
      [] k = "461"         -> Response(461, FALSE, None)
      [] k = "200_S_empty" -> Response(200, FALSE, Some(<<>>))
      [] OTHER             -> Malformed

\* The chunks of 1..n messages over the kinds ks.
Chunks(ks, n) == UNION {[1..m -> ks] : m \in 1..n}

-----------------------------------------------------------------------------
(* Pure helpers of handle_connection                                       *)

\* sid.split(';').next(): the tokens before the first ";"
RECURSIVE SplitNext(_)
SplitNext(s) ==
    IF s = <<>> \/ Head(s) = ";" THEN <<>> ELSE <<Head(s)>> \o SplitNext(Tail(s))

\* format!("RTP/AVP;unicast;client_port={}-{}", rtp_port, rtcp_port)
ClientPortTransport(rtp_port, rtcp_port) ==
    <<"RTP/AVP", ";", "unicast", ";", "client_port=",
      ToString(rtp_port), "-", ToString(rtcp_port)>>

\* if let Some(transport) = req.headers.get_mut("Transport") { *transport = ... }
RewriteRequestTransport(headers, rtp_port, rtcp_port) ==
    IF "Transport" \in DOMAIN headers
    THEN [headers EXCEPT !["Transport"] = ClientPortTransport(rtp_port, rtcp_port)]
    ELSE headers

\* format!("{};x-wt-channel-id={}-{}", transport, rtp_channel_id, rtcp_channel_id)
InjectChannelIds(transport, setup) ==
    transport \o <<";", "x-wt-channel-id=", ToString(setup.rtp_channel_id),
                   "-", ToString(setup.rtcp_channel_id)>>

\* pop_back() in the place of pop_front(): the newest record is taken
PopBack(q) == [setup |-> q[Len(q)], rest |-> SubSeq(q, 1, Len(q) - 1)]

\* pending_setups.pop_front(): the record popped and the queue left
PopFront(q) == [setup |-> Head(q), rest |-> Tail(q)]

\* u8 addition: the sum, and whether it left the range of the type
U8Overflows(a, b) == a + b >= U8Modulus
U8Wrap(a, b) == (a + b) % U8Modulus

\* format!("TEARDOWN {} RTSP/1.0\r\nCSeq: 99\r\nSession: {}\r\n\r\n", rtsp_url, sid)
TeardownRequest(sid) ==
    [wire |-> "ok", method |-> "TEARDOWN", path |-> rtsp_url, version |-> "RTSP/1.0",
     headers |-> ("CSeq" :> <<"99">>) @@ ("Session" :> sid)]

\* The ports of the sockets the session holds: those of the pending setups and
\* those of the relays still running.
PortsOf(q) ==
    UNION {{q[i].rtp_port, q[i].rtcp_port} : i \in DOMAIN q}

RelayRunning(r) == r.state \in {"select", "sending", "locked"}

BoundPorts ==
    PortsOf(pending_setups) \cup {relays[i].port : i \in {j \in DOMAIN relays : RelayRunning(relays[j])}}

\* The port the OS binds for "0.0.0.0:0" when the ports of b are taken: the
\* lowest free one, which is at most Cardinality(b) above PortBase
BindPort(b) ==
    CHOOSE p \in PortBase..(PortBase + Cardinality(b)) :
        /\ p \notin b
        /\ \A q \in PortBase..(p - 1) : q \in b

\* Where the drain loop goes after a message: on to the next buffered one, or
\* back to the select! when parse finds the buffer empty (Ok(None)).
AfterDrain(buf, draining) == IF buf = <<>> THEN "loop" ELSE draining

\* The registry of a server no WebSocket connection has reached yet
\* (server.rs, main: Arc::new(Mutex::new(HashMap::new())))
RegistryIdle ==
    /\ registry = <<>>
    /\ conns = <<>>
    /\ started = <<>>

-----------------------------------------------------------------------------
(* Initial state: proxy.rs:56-65, after the TCP connection is made         *)

InitSession(builds, backends) ==
    /\ overflow_checks \in builds
    /\ backend \in backends
    /\ pc = "loop"
    /\ next_channel_id = 0
    /\ pending_setups = <<>>
    /\ session_id = None
    /\ cancelled = FALSE
    /\ cancel_calls = 0
    /\ wt_buf = <<>>
    /\ tcp_buf = <<>>
    /\ cur_resp = None
    /\ relays = <<>>
    /\ data_lock = 0
    /\ last_write = None
    /\ dgram_last = None
    /\ n_dgrams = 0
    /\ n_pkts = 0
    /\ n_teardowns = 0
    /\ setup_log = <<>>
    /\ outstanding = <<>>
    /\ n_xport = 0
    /\ in_order = TRUE
    /\ n_msgs = 0
    /\ lost = [origin |-> FALSE, browser |-> FALSE]
    /\ skipped_frames = 0

-----------------------------------------------------------------------------
(* Browser -> origin arm of the select! (proxy.rs:70-123)                  *)

\* read_control returns Ok(n), n > 0, with the complete requests of chunk
ReadControl(chunk) ==
    /\ pc = "loop"
    /\ chunk # <<>>
    /\ wt_buf' = wt_buf \o chunk
    /\ n_msgs' = n_msgs + Len(chunk)
    /\ pc' = "drain_req"
    /\ last_write' = None
    /\ UNCHANGED <<build_vars, codec_vars, reg_vars, lost, skipped_frames, ctl_vars, tcp_buf, cur_resp, relay_vars, n_teardowns, setup_log, outstanding, resp_hist>>

\* read_control returns Err (ok = FALSE) or Ok(0) (ok = TRUE): break
ReadControlEnds(ok) ==
    /\ pc = "loop"
    /\ pc' = "cleanup"
    /\ last_write' = None
    /\ UNCHANGED <<build_vars, codec_vars, reg_vars, lost, skipped_frames, ctl_vars, wt_buf, tcp_buf, cur_resp, relay_vars,
                   n_teardowns, setup_log, outstanding, resp_hist, n_msgs>>

\* read_control on the WebSocket backend gets a frame that is neither Text nor
\* Close (Binary, Ping, Pong): the `_ => Ok(0)` arm of transport.rs:101 appends
\* nothing, and handle_connection takes n == 0 for a closed stream (proxy.rs:79-82)
ReadControlOtherFrame ==
    /\ pc = "loop"
    /\ backend = "WebSocket"
    /\ skipped_frames' = skipped_frames + 1
    /\ pc' = "cleanup"
    /\ last_write' = None
    /\ UNCHANGED <<build_vars, codec_vars, reg_vars, lost, ctl_vars, wt_buf, tcp_buf, cur_resp,
                   relay_vars, n_teardowns, setup_log, outstanding, resp_hist, n_msgs>>

\* RtspRequest::parse(&wt_buf)? is Err: handle_connection returns the error
RequestParseError ==
    /\ pc = "drain_req"
    /\ Head(wt_buf).wire = "malformed"
    /\ pc' = "failed"
    /\ last_write' = None
    /\ UNCHANGED <<build_vars, codec_vars, reg_vars, lost, skipped_frames, ctl_vars, wt_buf, tcp_buf, cur_resp, relay_vars,
                   n_teardowns, setup_log, outstanding, resp_hist, n_msgs>>

\* tcp_write.write_all(&req.to_bytes()) and what the drain loop does next:
\* on Err the inner while loop is left (break) and the select! is awaited again
WriteToOrigin(req, ok) ==
    /\ last_write' = Some([to |-> "origin", kind |-> "forward", msg |-> req, ok |-> ok])
    /\ outstanding' = IF ok THEN Append(outstanding, req.method) ELSE outstanding
    /\ lost' = IF ok THEN lost ELSE [lost EXCEPT !.origin = TRUE]
    /\ pc' = IF ok THEN AfterDrain(Tail(wt_buf), "drain_req") ELSE "loop"

\* One iteration of the drain loop for a request that is not a SETUP
ForwardRequest(ok) ==
    /\ pc = "drain_req"
    /\ Head(wt_buf).wire = "ok"
    /\ Head(wt_buf).method # "SETUP"
    /\ wt_buf' = Tail(wt_buf)
    /\ WriteToOrigin(Head(wt_buf), ok)
    /\ UNCHANGED <<build_vars, codec_vars, reg_vars, skipped_frames, ctl_vars, tcp_buf, cur_resp, relay_vars, n_teardowns, setup_log, resp_hist, n_msgs>>

\* A SETUP whose UdpSocket::bind(..).await? fails: the function returns the error
SetupBindFails ==
    /\ pc = "drain_req"
    /\ Head(wt_buf).wire = "ok"
    /\ Head(wt_buf).method = "SETUP"
    /\ wt_buf' = Tail(wt_buf)
    /\ pc' = "failed"
    /\ last_write' = None
    /\ UNCHANGED <<build_vars, codec_vars, reg_vars, lost, skipped_frames, ctl_vars, tcp_buf, cur_resp, relay_vars, n_teardowns, setup_log, outstanding, resp_hist, n_msgs>>

\* Whether the channel id arithmetic of a SETUP (proxy.rs:105-107) leaves u8
AllocOverflows(id) == U8Overflows(id, 1) \/ U8Overflows(id, 2)

\* A SETUP whose channel id arithmetic overflows in a build with overflow checks:
\* the task panics after the header rewrite, before the push and the write
SetupOverflowPanics ==
    /\ pc = "drain_req"
    /\ Head(wt_buf).wire = "ok"
    /\ Head(wt_buf).method = "SETUP"
    /\ overflow_checks
    /\ AllocOverflows(next_channel_id)
    /\ wt_buf' = Tail(wt_buf)
    /\ pc' = "panicked"
    /\ last_write' = None
    /\ UNCHANGED <<build_vars, codec_vars, reg_vars, lost, skipped_frames, ctl_vars, tcp_buf, cur_resp, relay_vars, n_teardowns, setup_log, outstanding, resp_hist, n_msgs>>

\* The PendingSetup of proxy.rs:105-114
NewPendingSetup(id, rtp_port, rtcp_port) ==
    [rtp_channel_id |-> id, rtcp_channel_id |-> U8Wrap(id, 1),
     rtp_port |-> rtp_port, rtcp_port |-> rtcp_port]

\* One iteration of the drain loop for a SETUP (proxy.rs:88-121): the two
\* sockets are bound to rtp_port and rtcp_port
ForwardSetup(rtp_port, rtcp_port, ok) ==
    /\ pc = "drain_req"
    /\ Head(wt_buf).wire = "ok"
    /\ Head(wt_buf).method = "SETUP"
    /\ rtp_port \notin BoundPorts
    /\ rtcp_port \notin BoundPorts \cup {rtp_port}
    /\ ~(overflow_checks /\ AllocOverflows(next_channel_id))
    /\ LET req == [Head(wt_buf) EXCEPT
                      !.headers = RewriteRequestTransport(@, rtp_port, rtcp_port)]
           setup == NewPendingSetup(next_channel_id, rtp_port, rtcp_port)
       IN /\ next_channel_id' = U8Wrap(next_channel_id, 2)
          /\ pending_setups' = Append(pending_setups, setup)
          /\ setup_log' = Append(setup_log, setup)
          /\ wt_buf' = Tail(wt_buf)
          /\ WriteToOrigin(req, ok)
    /\ UNCHANGED <<build_vars, codec_vars, reg_vars, skipped_frames, session_id, cancelled, cancel_calls, tcp_buf, cur_resp,
                   relay_vars, n_teardowns, resp_hist, n_msgs>>

-----------------------------------------------------------------------------
(* Origin -> browser arm of the select! (proxy.rs:126-199)                 *)

\* tcp_read.read_buf returns Ok(n), n > 0, with the complete responses of chunk
TcpRead(chunk) ==
    /\ pc = "loop"
    /\ chunk # <<>>
    /\ tcp_buf' = tcp_buf \o chunk
    /\ n_msgs' = n_msgs + Len(chunk)
    /\ pc' = "drain_resp"
    /\ last_write' = None
    /\ UNCHANGED <<build_vars, codec_vars, reg_vars, lost, skipped_frames, ctl_vars, wt_buf, cur_resp, relay_vars, n_teardowns, setup_log, outstanding, resp_hist>>

\* read_buf returns Err (ok = FALSE) or Ok(0) (ok = TRUE): break
TcpReadEnds(ok) ==
    /\ pc = "loop"
    /\ pc' = "cleanup"
    /\ last_write' = None
    /\ UNCHANGED <<build_vars, codec_vars, reg_vars, lost, skipped_frames, ctl_vars, wt_buf, tcp_buf, cur_resp, relay_vars,
                   n_teardowns, setup_log, outstanding, resp_hist, n_msgs>>

\* RtspResponse::parse(&tcp_buf)? is Err: handle_connection returns the error
ResponseParseError ==
    /\ pc = "drain_resp"
    /\ Head(tcp_buf).wire = "malformed"
    /\ pc' = "failed"
    /\ last_write' = None
    /\ UNCHANGED <<build_vars, codec_vars, reg_vars, lost, skipped_frames, ctl_vars, wt_buf, tcp_buf, cur_resp, relay_vars,
                   n_teardowns, setup_log, outstanding, resp_hist, n_msgs>>

\* A capture without the is_none() test: the latest Session header wins
CaptureLatestSession(sid, headers) ==
    IF "Session" \in DOMAIN headers
    THEN Some(SplitNext(headers["Session"]))
    ELSE sid

\* Capture Session ID if present (proxy.rs:145-152)
CaptureSession(sid, headers) ==
    IF "Session" \in DOMAIN headers /\ sid = None
    THEN Some(SplitNext(headers["Session"]))
    ELSE sid

\* resp.status_code == 200 && resp.headers.contains_key("Transport")
IsSetupResponse(resp) ==
    /\ resp.status_code = 200
    /\ "Transport" \in DOMAIN resp.headers

\* Whether the response pops a pending setup (proxy.rs:154-156)
MatchesSetup(resp, q) == IsSetupResponse(resp) /\ q # <<>>

\* Relays spawned for the newest record of the queue, not for the popped one.
SpawnRelaysOfNewest(rs, setup) ==
    LET newest == pending_setups[Len(pending_setups)]
    IN rs \o <<[channel_id |-> newest.rtp_channel_id, port |-> newest.rtp_port,
                state |-> "select", buf |-> <<>>, payload |-> <<>>],
               [channel_id |-> newest.rtcp_channel_id, port |-> newest.rtcp_port,
                state |-> "select", buf |-> <<>>, payload |-> <<>>]>>

\* tokio::spawn(forward_udp(socket, sender, channel_id, token)), twice
SpawnRelays(rs, setup) ==
    rs \o <<[channel_id |-> setup.rtp_channel_id, port |-> setup.rtp_port,
             state |-> "select", buf |-> <<>>, payload |-> <<>>],
            [channel_id |-> setup.rtcp_channel_id, port |-> setup.rtcp_port,
             state |-> "select", buf |-> <<>>, payload |-> <<>>]>>

\* One iteration of the drain loop for a response, up to its write (proxy.rs:141-191)
HandleResponse ==
    /\ pc = "drain_resp"
    /\ Head(tcp_buf).wire = "ok"
    /\ LET resp == Head(tcp_buf)
           popped == PopFront(pending_setups)
           out == IF MatchesSetup(resp, pending_setups)
                  THEN [resp EXCEPT !.headers["Transport"] =
                                        InjectChannelIds(@, popped.setup)]
                  ELSE resp
           rank == IF IsSetupResponse(resp) THEN n_xport + 1 ELSE 0
           ordered == in_order /\ rank <= Len(setup_log)
       IN /\ tcp_buf' = Tail(tcp_buf)
          /\ session_id' = CaptureSession(session_id, resp.headers)
          /\ IF MatchesSetup(resp, pending_setups)
             THEN /\ pending_setups' = popped.rest
                  /\ relays' = SpawnRelays(relays, popped.setup)
             ELSE UNCHANGED <<pending_setups, relays>>
          /\ cur_resp' = Some([msg |-> out, orig |-> resp, rank |-> rank,
                               ordered |-> ordered, queued |-> Len(pending_setups)])
          /\ n_xport' = IF IsSetupResponse(resp) THEN n_xport + 1 ELSE n_xport
          /\ in_order' = ordered
          /\ outstanding' = IF outstanding = <<>> THEN <<>> ELSE Tail(outstanding)
    /\ pc' = "write_resp"
    /\ last_write' = None
    /\ UNCHANGED <<build_vars, codec_vars, reg_vars, lost, skipped_frames, next_channel_id, cancelled, cancel_calls, wt_buf,
                   data_lock, dgram_last, n_dgrams, n_pkts, n_teardowns, setup_log, n_msgs>>

\* transport.write_control(&resp.to_bytes()): on Err the inner while loop is
\* left (break) and the select! is awaited again (proxy.rs:194-197)
WriteResponse(ok) ==
    /\ pc = "write_resp"
    /\ last_write' = Some([to |-> "browser", kind |-> "forward",
                           msg |-> cur_resp[1].msg, orig |-> cur_resp[1].orig,
                           rank |-> cur_resp[1].rank, ordered |-> cur_resp[1].ordered,
                           queued |-> cur_resp[1].queued, ok |-> ok])
    /\ cur_resp' = None
    /\ lost' = IF ok THEN lost ELSE [lost EXCEPT !.browser = TRUE]
    /\ pc' = IF ok THEN AfterDrain(tcp_buf, "drain_resp") ELSE "loop"
    /\ UNCHANGED <<build_vars, codec_vars, reg_vars, skipped_frames, ctl_vars, wt_buf, tcp_buf, relay_vars, n_teardowns, setup_log, outstanding, resp_hist, n_msgs>>

-----------------------------------------------------------------------------
(* Cleanup after the loop (proxy.rs:208-224)                               *)

\* A cleanup that goes on to the TEARDOWN without cancelling the token.
SkipCancel ==
    /\ pc = "cleanup"
    /\ pc' = "teardown"
    /\ last_write' = None
    /\ UNCHANGED <<build_vars, codec_vars, reg_vars, lost, skipped_frames, ctl_vars, wt_buf, tcp_buf, cur_resp, relay_vars,
                   n_teardowns, setup_log, outstanding, resp_hist, n_msgs>>

\* cancel_token.cancel()
CancelToken ==
    /\ pc = "cleanup"
    /\ cancelled' = TRUE
    /\ cancel_calls' = cancel_calls + 1
    /\ pc' = "teardown"
    /\ last_write' = None
    /\ UNCHANGED <<build_vars, codec_vars, reg_vars, lost, skipped_frames, next_channel_id, pending_setups, session_id, wt_buf,
                   tcp_buf, cur_resp, relay_vars, n_teardowns,
                   setup_log, outstanding, resp_hist, n_msgs>>

\* if let Some(sid) = session_id { let _ = tcp_write.write_all(teardown).await; }
SendTeardown(ok) ==
    /\ pc = "teardown"
    /\ session_id # None
    /\ last_write' = Some([to |-> "origin", kind |-> "teardown",
                           msg |-> TeardownRequest(session_id[1]), ok |-> ok])
    /\ n_teardowns' = n_teardowns + 1
    /\ pc' = "done"
    /\ UNCHANGED <<build_vars, codec_vars, reg_vars, lost, skipped_frames, ctl_vars, wt_buf, tcp_buf, cur_resp, relay_vars,
                   setup_log, outstanding, resp_hist, n_msgs>>

\* session_id is None: Ok(()) is returned with nothing sent
ReturnOk ==
    /\ pc = "teardown"
    /\ session_id = None
    /\ pc' = "done"
    /\ last_write' = None
    /\ UNCHANGED <<build_vars, codec_vars, reg_vars, lost, skipped_frames, ctl_vars, wt_buf, tcp_buf, cur_resp, relay_vars,
                   n_teardowns, setup_log, outstanding, resp_hist, n_msgs>>

-----------------------------------------------------------------------------
(* A relay task, forward_udp (proxy.rs:228-260), and send_datagram         *)
(* (transport.rs:36-50).  A relay is at its select! ("select"), between    *)
(* the receive and the send ("sending"), holding the data mutex inside     *)
(* ws.send ("locked"), or has returned ("returned_ok", "returned_err").    *)
(* buf is buf[..n] of the latest recv_from, payload the datagram built     *)
(* from it and not yet sent.                                               *)

session_vars == <<build_vars, codec_vars, reg_vars, lost, skipped_frames, pc, ctl_vars, wt_buf, tcp_buf, cur_resp, last_write,
                  n_teardowns, setup_log, outstanding, resp_hist, n_msgs>>

UdpPackets == {<<>>, <<170, 187, 204, 221>>}

\* A payload with the channel id after the packet, not before it
TrailerPayload(channel_id, pkt) == pkt \o <<channel_id>>

\* payload = [channel_id] ++ buf[..n]  (proxy.rs:244-246)
DatagramPayload(channel_id, pkt) == <<channel_id>> \o pkt

SetRelay(i, st, payload) ==
    relays' = [relays EXCEPT ![i] = [@ EXCEPT !.state = st, !.payload = payload]]

\* select! takes the token.cancelled() branch: return Ok(())
RelayCancelled(i) ==
    /\ relays[i].state = "select"
    /\ cancelled
    /\ SetRelay(i, "returned_ok", <<>>)
    /\ UNCHANGED <<session_vars, data_lock, dgram_last, n_dgrams, n_pkts>>

\* select! takes the recv_from branch with Ok((n, _)): buf[..n] holds the
\* packet and the payload is built
RelayRecv(i, pkt) ==
    /\ relays[i].state = "select"
    /\ relays' = [relays EXCEPT ![i] =
                     [@ EXCEPT !.state = "sending", !.buf = pkt,
                               !.payload = DatagramPayload(relays[i].channel_id, pkt)]]
    /\ n_pkts' = n_pkts + 1
    /\ UNCHANGED <<session_vars, data_lock, dgram_last, n_dgrams>>

\* A receive error that takes the session down with it: the token is cancelled
RelayRecvErrorCancels(i) ==
    /\ relays[i].state = "select"
    /\ SetRelay(i, "returned_err", <<>>)
    /\ cancelled' = TRUE
    /\ UNCHANGED <<build_vars, codec_vars, reg_vars, lost, skipped_frames, pc, next_channel_id,
                   pending_setups, session_id, cancel_calls, wt_buf, tcp_buf, cur_resp,
                   last_write, n_teardowns, setup_log, outstanding, resp_hist, n_msgs,
                   data_lock, dgram_last, n_dgrams, n_pkts>>

\* select! takes the recv_from branch with Err: return Err
RelayRecvError(i) ==
    /\ relays[i].state = "select"
    /\ SetRelay(i, "returned_err", <<>>)
    /\ UNCHANGED <<session_vars, data_lock, dgram_last, n_dgrams, n_pkts>>

\* The datagram the transport is handed
Emit(i) ==
    /\ dgram_last' = Some([relay |-> i, payload |-> relays[i].payload,
                           after_cancel |-> cancelled])
    /\ n_dgrams' = n_dgrams + 1

\* TransportSender::WebTransport: conn.send_datagram(payload)?
\* Err ends the relay with an error (proxy.rs:248-251)
RelaySendWt(i, ok) ==
    /\ relays[i].state = "sending"
    /\ backend = "WebTransport"
    /\ IF ok THEN Emit(i) /\ SetRelay(i, "select", <<>>)
       ELSE SetRelay(i, "returned_err", <<>>) /\ UNCHANGED <<dgram_last, n_dgrams>>
    /\ UNCHANGED <<session_vars, data_lock, n_pkts>>

\* TransportSender::WebSocket: ws.lock().await
RelayLockWs(i) ==
    /\ relays[i].state = "sending"
    /\ backend = "WebSocket"
    /\ data_lock = 0
    /\ data_lock' = i
    /\ SetRelay(i, "locked", relays[i].payload)
    /\ UNCHANGED <<session_vars, dgram_last, n_dgrams, n_pkts>>

\* TransportSender::WebSocket: ws.send(Message::Binary(payload)).await, whose
\* error is logged; Ok(()) is returned either way and the guard is dropped
RelaySendWs(i, ok) ==
    /\ relays[i].state = "locked"
    /\ data_lock = i
    /\ IF ok THEN Emit(i) ELSE UNCHANGED <<dgram_last, n_dgrams>>
    /\ data_lock' = 0
    /\ SetRelay(i, "select", <<>>)
    /\ UNCHANGED <<session_vars, n_pkts>>

-----------------------------------------------------------------------------
(* The session under arbitrary browser and origin behaviour.  With MaxMsgs *)
(* messages the channel id arithmetic stays in range; SpecAlloc runs the   *)
(* allocator to its end.  The relays take no step here: they share no      *)
(* state with the control loop, and SpecRelay runs them.                   *)

ReqChunk(kinds) == [i \in DOMAIN kinds |-> ReqOfKind(kinds[i])]
RespChunk(kinds) == [i \in DOMAIN kinds |-> RespOfKind(kinds[i])]

\* No codec run: the codec variables of a session that is not one
CodecIdle ==
    /\ codec_side = "request"
    /\ codec_stream = <<>>
    /\ codec_read = 0
    /\ codec_adv = 0
    /\ codec_out = <<>>
    /\ codec_res = "none"
    /\ codec_rt = None

\* The ports of the two sockets a SETUP binds now
RtpBind == BindPort(BoundPorts)
RtcpBind == BindPort(BoundPorts \cup {RtpBind})

Init == InitSession({FALSE}, {"WebTransport"}) /\ CodecIdle /\ RegistryIdle

Next ==
    \/ \E ks \in Chunks(ReqKinds, MaxBatch) :
          n_msgs + Len(ks) <= MaxMsgs /\ ReadControl(ReqChunk(ks))
    \/ \E ok \in BOOLEAN : ReadControlEnds(ok)
    \/ RequestParseError
    \/ \E ok \in BOOLEAN : ForwardRequest(ok)
    \/ SetupBindFails
    \/ \E ok \in BOOLEAN : ForwardSetup(RtpBind, RtcpBind, ok)
    \/ \E ks \in Chunks(RespKinds, MaxBatch) :
          n_msgs + Len(ks) <= MaxMsgs /\ TcpRead(RespChunk(ks))
    \/ \E ok \in BOOLEAN : TcpReadEnds(ok)
    \/ ResponseParseError
    \/ HandleResponse
    \/ \E ok \in BOOLEAN : WriteResponse(ok)
    \/ CancelToken
    \/ \E ok \in BOOLEAN : SendTeardown(ok)
    \/ ReturnOk

Spec == Init /\ [][Next]_vars

-----------------------------------------------------------------------------
(* One SETUP and its relays: the session with a well-behaved browser and   *)
(* origin, and the relay tasks under every interleaving with it.           *)

InitRelay == InitSession({FALSE}, {"WebTransport", "WebSocket"}) /\ CodecIdle /\ RegistryIdle

NextRelay ==
    \/ n_msgs < MaxRelayMsgs /\ ReadControl(ReqChunk(<<"SETUP_T">>))
    \/ \E ok \in BOOLEAN : ReadControlEnds(ok)
    \/ ReadControlOtherFrame
    \/ ForwardSetup(RtpBind, RtcpBind, TRUE)
    \/ n_msgs < MaxRelayMsgs /\ TcpRead(RespChunk(<<"200_T_S">>))
    \/ \E ok \in BOOLEAN : TcpReadEnds(ok)
    \/ HandleResponse
    \/ WriteResponse(TRUE)
    \/ CancelToken
    \/ SendTeardown(TRUE)
    \/ ReturnOk
    \/ \E i \in DOMAIN relays : RelayCancelled(i)
    \/ \E i \in DOMAIN relays : \E pkt \in UdpPackets :
          n_pkts < MaxPackets /\ RelayRecv(i, pkt)
    \/ \E i \in DOMAIN relays : RelayRecvError(i)
    \/ \E i \in DOMAIN relays : \E ok \in BOOLEAN : RelaySendWt(i, ok)
    \/ \E i \in DOMAIN relays : RelayLockWs(i)
    \/ \E i \in DOMAIN relays : \E ok \in BOOLEAN : RelaySendWs(i, ok)

SpecRelay == InitRelay /\ [][NextRelay]_vars

-----------------------------------------------------------------------------
(* The channel id allocator run to the end of its range: a browser that    *)
(* sends SETUP after SETUP, in both build profiles.                        *)

InitAlloc == InitSession(BOOLEAN, {"WebTransport"}) /\ CodecIdle /\ RegistryIdle

NextAlloc ==
    \/ n_msgs < MaxAllocSetups /\ ReadControl(ReqChunk(<<"SETUP_T">>))
    \/ ForwardSetup(RtpBind, RtcpBind, TRUE)
    \/ SetupOverflowPanics

SpecAlloc == InitAlloc /\ [][NextAlloc]_vars

-----------------------------------------------------------------------------
(* The allocator and the relays together: a browser that sends SETUP after *)
(* SETUP, each answered by the origin before the next, in a build without  *)
(* overflow checks.                                                        *)

InitAllocRelay == InitSession({FALSE}, {"WebTransport"}) /\ CodecIdle /\ RegistryIdle

NextAllocRelay ==
    \/ /\ pending_setups = <<>>
       /\ Len(setup_log) < MaxAllocSetups
       /\ ReadControl(ReqChunk(<<"SETUP_T">>))
    \/ ForwardSetup(RtpBind, RtcpBind, TRUE)
    \/ pending_setups # <<>> /\ TcpRead(RespChunk(<<"200_T_S">>))
    \/ HandleResponse
    \/ WriteResponse(TRUE)

SpecAllocRelay == InitAllocRelay /\ [][NextAllocRelay]_vars

-----------------------------------------------------------------------------
(* The WebSocket rendezvous, server.rs:108-183.  Every accepted connection *)
(* runs handle_ws_connection in a task of its own: the handshake, and then *)
(* the registry section, which holds the registry mutex from its first     *)
(* line to its last and is one step.  A connection is named by its index   *)
(* in conns, which stands for its socket.                                  *)

\* The query parameters a client may connect with: session_id, type and rtsp,
\* each present or absent
WsRequests ==
    { [session_id |-> Some("s1"), type |-> Some("control"), rtsp |-> Some("rtsp://a")],
      [session_id |-> Some("s1"), type |-> None, rtsp |-> Some("rtsp://b")],
      [session_id |-> Some("s1"), type |-> Some("control"), rtsp |-> None],
      [session_id |-> Some("s1"), type |-> Some("data"), rtsp |-> Some("rtsp://b")],
      [session_id |-> Some("s2"), type |-> Some("data"), rtsp |-> None],
      [session_id |-> Some("s2"), type |-> Some("control"), rtsp |-> Some("rtsp://a")],
      [session_id |-> None, type |-> Some("data"), rtsp |-> None] }

\* enum SessionState
WaitingForData(control_socket, url) ==
    [state |-> "WaitingForData", socket |-> control_socket, rtsp_url |-> url]
WaitingForControl(data_socket) ==
    [state |-> "WaitingForControl", socket |-> data_socket]

\* A lookup that leaves the entry in the map
RegGet(reg, sid) == reg

\* reg.remove(&session_id): the map afterwards
RegRemove(reg, sid) == [k \in DOMAIN reg \ {sid} |-> reg[k]]

\* What reg.remove(&session_id) returns
RegRemoved(reg, sid) == IF sid \in DOMAIN reg THEN Some(reg[sid]) ELSE None

\* reg.insert(session_id, state)
RegInsert(reg, sid, st) == (sid :> st) @@ reg

\* params.get("type").map(|s| s.as_str()).unwrap_or("control")
ConnType(params) == IF params.type = None THEN "control" ELSE params.type[1]

\* What a run of the registry section comes to: the map it leaves, the pair
\* it hands on, and how the handler goes on
Rejected(reg) == [reg |-> reg, pair |-> None, outcome |-> "rejected"]
Waiting(reg) == [reg |-> reg, pair |-> None, outcome |-> "waiting"]
Paired(reg, control_sock, data_sock, url) ==
    [reg |-> reg, outcome |-> "paired",
     pair |-> Some([control |-> control_sock, data |-> data_sock, rtsp_url |-> url])]

\* if conn_type == "data" { match reg.remove(&session_id) { .. } } (server.rs:138-153)
DataArm(c, sid) ==
    LET found == RegRemoved(registry, sid)
        reg == RegRemove(registry, sid)
    IN IF found = None THEN Waiting(RegInsert(reg, sid, WaitingForControl(c)))
       ELSE IF found[1].state = "WaitingForData"
       THEN Paired(reg, found[1].socket, c, found[1].rtsp_url)
       ELSE Rejected(reg)

\* else { let rtsp_url = ..?; match reg.remove(&session_id) { .. } } (server.rs:154-173)
ControlArm(c, sid, rtsp) ==
    IF rtsp = None THEN Rejected(registry)
    ELSE LET found == RegRemoved(registry, sid)
             reg == RegRemove(registry, sid)
         IN IF found = None THEN Waiting(RegInsert(reg, sid, WaitingForData(c, rtsp[1])))
            ELSE IF found[1].state = "WaitingForControl"
            THEN Paired(reg, c, found[1].socket, rtsp[1])
            ELSE Rejected(reg)

\* accept_hdr_async(..).await? returns the stream, and the callback has stored
\* the query parameters (server.rs:113-128)
WsAccept(params) ==
    /\ conns' = Append(conns, [session_id |-> params.session_id, type |-> params.type,
                               rtsp |-> params.rtsp, outcome |-> "handshaken"])
    /\ UNCHANGED <<registry, started>>
    /\ UNCHANGED <<proxy_vars_of_session, codec_vars>>

\* The handshake fails, or leaves no query parameters: the handler returns the
\* error before it reads any parameter
WsAcceptFails ==
    /\ conns' = Append(conns, [session_id |-> None, type |-> None,
                               rtsp |-> None, outcome |-> "rejected"])
    /\ UNCHANGED <<registry, started>>
    /\ UNCHANGED <<proxy_vars_of_session, codec_vars>>

\* The rest of handle_ws_connection for connection c (server.rs:130-181): the
\* parameters, the registry section, and the proxy session for a pair
HandleWsConnection(c) ==
    /\ conns[c].outcome = "handshaken"
    /\ LET params == conns[c]
           r == IF params.session_id = None THEN Rejected(registry)
                ELSE IF ConnType(params) = "data" THEN DataArm(c, params.session_id[1])
                ELSE ControlArm(c, params.session_id[1], params.rtsp)
       IN /\ registry' = r.reg
          /\ conns' = [conns EXCEPT ![c].outcome = r.outcome]
          /\ started' = IF r.pair = None THEN started ELSE Append(started, r.pair[1])
    /\ UNCHANGED <<proxy_vars_of_session, codec_vars>>

InitRendezvous == InitSession({FALSE}, {"WebSocket"}) /\ CodecIdle /\ RegistryIdle

NextRendezvous ==
    \/ \E params \in {q \in WsRequests : Len(conns) < MaxConns} : WsAccept(params)
    \/ Len(conns) < MaxConns /\ WsAcceptFails
    \/ \E c \in DOMAIN conns : HandleWsConnection(c)

SpecRendezvous == InitRendezvous /\ [][NextRendezvous]_vars

-----------------------------------------------------------------------------
(* The codec, rtsp.rs, over bytes.  A byte string is a TLA+ string of      *)
(* one-byte characters.  The byte 0xFF, which is not valid UTF-8, is       *)
(* written "^", and the three bytes EF BF BD of U+FFFD are written "~~~".  *)

Byte(s, i) == SubSeq(s, i, i)

\* char::is_whitespace over the alphabet of the runs
Whitespace == {" ", "\t", "\r", "\n"}

\* String::from_utf8_lossy(data): every invalid byte becomes U+FFFD
RECURSIVE Utf8Lossy(_)
Utf8Lossy(data) ==
    IF data = "" THEN ""
    ELSE IF Len(data) = 1 THEN (IF data = "^" THEN "~~~" ELSE data)
    ELSE LET half == Len(data) \div 2
         IN Utf8Lossy(SubSeq(data, 1, half)) \o Utf8Lossy(SubSeq(data, half + 1, Len(data)))

\* text.find(pat): the offset of the first occurrence, -1 for None
Find(text, pat) ==
    LET hits == {i \in 0..(Len(text) - Len(pat)) :
                    SubSeq(text, i + 1, i + Len(pat)) = pat}
    IN IF hits = {} THEN -1 ELSE CHOOSE i \in hits : \A j \in hits : i <= j

\* The positions of s that hold no whitespace
InkAt(s) == {i \in 1..Len(s) : Byte(s, i) \notin Whitespace}

\* str::trim_start
TrimStart(s) ==
    IF InkAt(s) = {} THEN ""
    ELSE SubSeq(s, CHOOSE i \in InkAt(s) : \A j \in InkAt(s) : i <= j, Len(s))

\* str::trim_end
TrimEnd(s) ==
    IF InkAt(s) = {} THEN ""
    ELSE SubSeq(s, 1, CHOOSE i \in InkAt(s) : \A j \in InkAt(s) : i >= j)

\* str::trim
Trim(s) == TrimEnd(TrimStart(s))

\* str::lines: split at "\n", a "\r" before it belongs to the line ending
RECURSIVE Lines(_)
Lines(s) ==
    IF s = "" THEN <<>>
    ELSE LET nl == Find(s, "\n")
         IN IF nl = -1 THEN <<s>>
            ELSE LET line == SubSeq(s, 1, nl)
                     stripped == IF line # "" /\ Byte(line, Len(line)) = "\r"
                                 THEN SubSeq(line, 1, Len(line) - 1) ELSE line
                 IN <<stripped>> \o Lines(SubSeq(s, nl + 2, Len(s)))

\* str::split_whitespace
RECURSIVE SplitWhitespace(_)
SplitWhitespace(s) ==
    LET t == TrimStart(s)
    IN IF t = "" THEN <<>>
       ELSE LET ends == {i \in 1..Len(t) : Byte(t, i) \in Whitespace}
                n == IF ends = {} THEN Len(t)
                     ELSE (CHOOSE i \in ends : \A j \in ends : i <= j) - 1
            IN <<SubSeq(t, 1, n)>> \o SplitWhitespace(SubSeq(t, n + 1, Len(t)))

\* line.split_once(':')
SplitOnce(line, sep) ==
    LET at == Find(line, sep)
    IN IF at = -1 THEN None
       ELSE Some(<<SubSeq(line, 1, at), SubSeq(line, at + 1 + Len(sep), Len(line))>>)

\* parts.join(sep)
RECURSIVE Join(_, _)
Join(parts, sep) ==
    IF parts = <<>> THEN ""
    ELSE IF Len(parts) = 1 THEN parts[1]
    ELSE parts[1] \o sep \o Join(Tail(parts), sep)

DigitValue(c) == CHOOSE d \in 0..9 : ToString(d) = c
IsDigit(c) == \E d \in 0..9 : ToString(d) = c

RECURSIVE DigitsValue(_)
DigitsValue(s) ==
    IF s = "" THEN 0
    ELSE 10 * DigitsValue(SubSeq(s, 1, Len(s) - 1)) + DigitValue(Byte(s, Len(s)))

\* The digits of str::parse for an unsigned integer: an optional "+" and
\* decimal digits
ParseDigits(s) ==
    LET d == IF s # "" /\ Byte(s, 1) = "+" THEN SubSeq(s, 2, Len(s)) ELSE s
    IN IF d # "" /\ (\A i \in 1..Len(d) : IsDigit(Byte(d, i)))
       THEN Some(DigitsValue(d)) ELSE None

\* str::parse::<usize>().ok(): the runs stay far below usize::MAX
ParseUsize(s) == ParseDigits(s)

U16Max == 65535

\* str::parse::<u16>().ok()
ParseU16(s) ==
    IF ParseDigits(s) # None /\ ParseDigits(s)[1] <= U16Max THEN ParseDigits(s) ELSE None

\* headers.insert(key, value): a later line replaces an earlier one of the same key
HeaderInsert(headers, key, value) == (key :> value) @@ headers

\* for line in lines { if let Some((key, value)) = line.split_once(':') { insert } }
RECURSIVE ParseHeaders(_, _)
ParseHeaders(lines, headers) ==
    IF lines = <<>> THEN headers
    ELSE LET kv == SplitOnce(Head(lines), ":")
         IN ParseHeaders(Tail(lines),
                         IF kv = None THEN headers
                         ELSE HeaderInsert(headers, Trim(kv[1][1]), Trim(kv[1][2])))

\* headers.get("Content-Length").and_then(|v| v.parse().ok()).unwrap_or(0)
ContentLength(headers) ==
    IF "Content-Length" \in DOMAIN headers
    THEN LET n == ParseUsize(headers["Content-Length"])
         IN IF n = None THEN 0 ELSE n[1]
    ELSE 0

\* Result<Option<(Self, usize)>>
Incomplete == [kind |-> "incomplete"]
ParseErr(why) == [kind |-> "error", why |-> why]
Parsed(msg, consumed) == [kind |-> "message", msg |-> msg, consumed |-> consumed]

\* The part of the two parse functions that is the same: the head is cut at
\* the first blank line and split into lines
HeaderEnd(data) == Find(Utf8Lossy(data), "\r\n\r\n")
HeaderLinesOf(data) == Lines(SubSeq(Utf8Lossy(data), 1, HeaderEnd(data)))

\* data[header_bytes..header_bytes + content_length]
BodyOf(data, header_bytes, content_length) ==
    SubSeq(data, header_bytes + 1, header_bytes + content_length)

\* RtspRequest::parse
RtspRequestParse(data) ==
    IF HeaderEnd(data) = -1 THEN Incomplete
    ELSE LET header_bytes == HeaderEnd(data) + 4
             lines == HeaderLinesOf(data)
         IN IF lines = <<>> THEN ParseErr("Empty request")
            ELSE LET parts == SplitWhitespace(Head(lines))
                 IN IF Len(parts) < 3 THEN ParseErr("Invalid request line")
                    ELSE LET headers == ParseHeaders(Tail(lines), <<>>)
                             content_length == ContentLength(headers)
                         IN IF Len(data) < header_bytes + content_length
                            THEN Incomplete
                            ELSE Parsed([method |-> parts[1], path |-> parts[2],
                                         version |-> parts[3], headers |-> headers,
                                         body |-> BodyOf(data, header_bytes, content_length)],
                                        header_bytes + content_length)

\* RtspResponse::parse
RtspResponseParse(data) ==
    IF HeaderEnd(data) = -1 THEN Incomplete
    ELSE LET header_bytes == HeaderEnd(data) + 4
             lines == HeaderLinesOf(data)
         IN IF lines = <<>> THEN ParseErr("Empty response")
            ELSE LET parts == SplitWhitespace(Head(lines))
                 IN IF Len(parts) < 3 THEN ParseErr("Invalid status line")
                    ELSE LET status_code == ParseU16(parts[2])
                             headers == ParseHeaders(Tail(lines), <<>>)
                             content_length == ContentLength(headers)
                         IN IF status_code = None THEN ParseErr("Invalid status code")
                            ELSE IF Len(data) < header_bytes + content_length
                            THEN Incomplete
                            ELSE Parsed([version |-> parts[1],
                                         status_code |-> status_code[1],
                                         reason |-> Join(SubSeq(parts, 3, Len(parts)), " "),
                                         headers |-> headers,
                                         body |-> BodyOf(data, header_bytes, content_length)],
                                        header_bytes + content_length)

\* for (k, v) in &self.headers { "{}: {}\r\n" }, in the order the map iterates
RECURSIVE HeaderLines(_, _)
HeaderLines(headers, order) ==
    IF order = <<>> THEN ""
    ELSE Head(order) \o ": " \o headers[Head(order)] \o "\r\n"
         \o HeaderLines(headers, Tail(order))

\* A serialisation that leaves the body out
ToBytesHeadOnly(start_line, headers, order, body) ==
    start_line \o "\r\n" \o HeaderLines(headers, order) \o "\r\n"

\* The part of the two to_bytes functions that is the same
ToBytes(start_line, headers, order, body) ==
    start_line \o "\r\n" \o HeaderLines(headers, order) \o "\r\n" \o body

\* RtspRequest::to_bytes
RtspRequestToBytes(req, order) ==
    ToBytes(req.method \o " " \o req.path \o " " \o req.version,
            req.headers, order, req.body)

\* RtspResponse::to_bytes
RtspResponseToBytes(resp, order) ==
    ToBytes(resp.version \o " " \o ToString(resp.status_code) \o " " \o resp.reason,
            resp.headers, order, resp.body)

\* The orders a HashMap with these keys may iterate in
IterationOrders(headers) ==
    LET keys == DOMAIN headers
    IN {o \in [1..Cardinality(keys) -> keys] : \A i, j \in DOMAIN o : i # j => o[i] # o[j]}

RtspParse(side, data) ==
    IF side = "request" THEN RtspRequestParse(data) ELSE RtspResponseParse(data)

RtspToBytes(side, msg, order) ==
    IF side = "request" THEN RtspRequestToBytes(msg, order)
    ELSE RtspResponseToBytes(msg, order)

-----------------------------------------------------------------------------
(* A codec run: a peer sends a stream of messages, the bytes arrive one at *)
(* a time or all at once, and the drain loop of handle_connection          *)
(* (proxy.rs:85-86 and 141-142) parses and advances until parse returns    *)
(* incomplete.  A message of the stream is a head and a body.              *)

Message(head, body) == [head |-> head, body |-> body]
Bytes(m) == m.head \o m.body

\* Well-formed requests: a request line, headers, a blank line, and a body of
\* the length the Content-Length header gives, the header name in any case;
\* among the responses a 401 that offers two authentication schemes, each in
\* a WWW-Authenticate header of its own
WellFormedRequests ==
    { Message("OPTIONS * RTSP/1.0\r\nCSeq: 1\r\n\r\n", ""),
      Message("ANNOUNCE u RTSP/1.0\r\nCSeq: 2\r\nContent-Length: 3\r\n\r\n", "v=0"),
      Message("ANNOUNCE u RTSP/1.0\r\nCSeq: 3\r\ncontent-length: 3\r\n\r\n", "v=0") }

WellFormedResponses ==
    { Message("RTSP/1.0 200 OK\r\nCSeq: 1\r\nSession: 12;timeout=60\r\n\r\n", ""),
      Message("RTSP/1.0 200 OK\r\nCSeq: 2\r\nContent-Length: 3\r\n\r\n", "v=0"),
      Message("RTSP/1.0 404 Not Found\r\nCSeq: 3\r\nCONTENT-LENGTH: 3\r\n\r\n", "v=0"),
      Message("RTSP/1.0 401 No\r\nWWW-Authenticate: Digest\r\nWWW-Authenticate: Basic\r\n\r\n", "") }

\* Other byte strings a peer may send: loose spacing, a bare "\n", a repeated
\* header, a line without a colon, an empty name, an invalid byte, no request line
OtherRequests ==
    { Message("PLAY  u \t RTSP/1.0 x\nA : b\r\nA: c\r\nnocolon\r\n: e\r\n\r\n", ""),
      Message("PLAY ^ RTSP/1.0\r\n\r\n", ""),
      Message("GARBAGE\r\n\r\n", "") }

OtherResponses ==
    { Message("RTSP/1.0 +200  Not   Found\r\nB:\r\n\r\n", ""),
      Message("RTSP/1.0 200 ^\r\n\r\n", ""),
      Message("RTSP/1.0 abc OK\r\n\r\n", "") }

MessagesOf(side) ==
    IF side = "request" THEN WellFormedRequests \cup OtherRequests
    ELSE WellFormedResponses \cup OtherResponses

WellFormed(m) == m \in WellFormedRequests \cup WellFormedResponses

\* The bytes of the messages ms, one after the other
RECURSIVE Concat(_)
Concat(ms) == IF ms = <<>> THEN "" ELSE Bytes(Head(ms)) \o Concat(Tail(ms))

\* wt_buf / tcp_buf: the bytes read and not yet advanced past
CodecBuf == SubSeq(Concat(codec_stream), codec_adv + 1, codec_read)

\* The variables of the session proper, which a codec run leaves alone
proxy_vars == <<build_vars, reg_vars, lost, skipped_frames, pc, ctl_vars, wt_buf, tcp_buf, cur_resp,
                last_write, n_teardowns, setup_log, outstanding, resp_hist, n_msgs,
                relay_vars>>

InitCodec ==
    /\ InitSession({FALSE}, {"WebTransport"})
    /\ codec_side \in {"request", "response"}
    /\ codec_stream \in UNION {[1..n -> MessagesOf(codec_side)] : n \in 1..MaxStreamMsgs}
    /\ codec_read = 0
    /\ codec_adv = 0
    /\ codec_out = <<>>
    /\ codec_res = "none"
    /\ codec_rt = None
    /\ RegistryIdle

\* read_control / read_buf appends n bytes of the stream to the buffer
CodecRead(n) ==
    /\ codec_res \in {"none", "incomplete"}
    /\ n >= 1
    /\ codec_read + n <= Len(Concat(codec_stream))
    /\ codec_read' = codec_read + n
    /\ codec_res' = "read"
    /\ codec_rt' = None
    /\ UNCHANGED <<codec_side, codec_stream, codec_adv, codec_out>>
    /\ UNCHANGED proxy_vars

\* One turn of `while let Some((msg, consumed)) = parse(&buf)? { buf.advance(consumed) }`
CodecParse ==
    /\ codec_res \in {"read", "message"}
    /\ LET r == RtspParse(codec_side, CodecBuf)
       IN /\ codec_res' = r.kind
          /\ IF r.kind = "message"
             THEN /\ codec_out' = Append(codec_out, [msg |-> r.msg, consumed |-> r.consumed])
                  /\ codec_adv' = codec_adv + r.consumed
             ELSE UNCHANGED <<codec_out, codec_adv>>
    /\ codec_rt' = None
    /\ UNCHANGED <<codec_side, codec_stream, codec_read>>
    /\ UNCHANGED proxy_vars

\* The message parse has just returned is serialised by to_bytes, the map
\* iterating in `order`, and the bytes are parsed again
CodecRoundTrip(order) ==
    /\ codec_res = "message"
    /\ LET orig == codec_out[Len(codec_out)].msg
           bytes == RtspToBytes(codec_side, orig, order)
       IN codec_rt' = Some([orig |-> orig, order |-> order, bytes |-> bytes,
                            again |-> RtspParse(codec_side, bytes)])
    /\ UNCHANGED <<codec_side, codec_stream, codec_read, codec_adv, codec_out, codec_res>>
    /\ UNCHANGED proxy_vars

\* The iteration orders of the header map of the message parsed last
LatestOrders ==
    IF codec_out = <<>> THEN {} ELSE IterationOrders(codec_out[Len(codec_out)].msg.headers)

NextCodec ==
    \/ CodecRead(1)
    \/ codec_read = 0 /\ CodecRead(Len(Concat(codec_stream)))
    \/ CodecParse
    \/ \E order \in LatestOrders : CodecRoundTrip(order)

SpecCodec == InitCodec /\ [][NextCodec]_vars

-----------------------------------------------------------------------------
(* Properties                                                              *)

Running == pc \in {"loop", "drain_req", "drain_resp", "write_resp"}
Returned == pc \in {"done", "failed"}

\* C1: FIFO correlation.  The i-th 200 response with a Transport header, when
\* each such response so far came after the SETUP of its rank, goes to the
\* browser with its own Transport value followed by ";x-wt-channel-id=<rtp>-<rtcp>"
\* where (rtp, rtcp) is the channel pair given to the i-th SETUP.
C1_FifoCorrelation ==
    LET Correlated(r) ==
            (r.rank > 0 /\ r.ordered) =>
                r.msg.headers["Transport"] =
                    r.orig.headers["Transport"]
                    \o <<";", "x-wt-channel-id=",
                         ToString(setup_log[r.rank].rtp_channel_id), "-",
                         ToString(setup_log[r.rank].rtcp_channel_id)>>
    IN /\ cur_resp # None => Correlated(cur_resp[1])
       /\ (last_write # None /\ last_write[1].to = "browser") => Correlated(last_write[1])

\* Two SETUPs and a PLAY were forwarded, and the second SETUP response has just
\* been written to the browser, in order, while the PLAY is still unanswered.
C1_Witness ==
    /\ last_write # None
    /\ last_write[1].to = "browser"
    /\ last_write[1].rank = 2
    /\ last_write[1].ordered
    /\ last_write[1].ok
    /\ Len(setup_log) = 2
    /\ outstanding = <<"PLAY">>

\* C2: the pending-setup queue is as long as the number of SETUPs that were
\* forwarded to the origin and are still unanswered.
C2_QueueIsOutstandingSetups ==
    Len(pending_setups) = Cardinality({i \in DOMAIN outstanding : outstanding[i] = "SETUP"})

\* C3: a 200 response with a Transport header that finds the pending-setup
\* queue empty ends the session with an error and is not written to the browser.
C3_UnmatchedSetupResponseIsFatal ==
    /\ (cur_resp # None /\ cur_resp[1].rank > 0 /\ cur_resp[1].queued = 0) => pc = "failed"
    /\ ~(/\ last_write # None
         /\ last_write[1].to = "browser"
         /\ last_write[1].rank > 0
         /\ last_write[1].queued = 0)

\* C4: every SETUP written to the origin has the Transport header
\* "RTP/AVP;unicast;client_port=<rtp_port>-<rtcp_port>" of the two sockets
\* bound for it, and no Transport header under another spelling.
C4_SetupTransportForced ==
    (/\ last_write # None
     /\ last_write[1].to = "origin"
     /\ last_write[1].kind = "forward"
     /\ last_write[1].msg.method = "SETUP")
    => LET h == last_write[1].msg.headers
           setup == setup_log[Len(setup_log)]
       IN /\ "Transport" \in DOMAIN h
          /\ h["Transport"] = <<"RTP/AVP", ";", "unicast", ";", "client_port=",
                                ToString(setup.rtp_port), "-", ToString(setup.rtcp_port)>>
          /\ "transport" \notin DOMAIN h

\* C5: the i-th SETUP (from 0) gets the channel ids 2i and 2i+1 for every
\* i in 0..127, and each of these 128 SETUPs succeeds.
C5_First128SetupsSucceed ==
    /\ \A i \in DOMAIN setup_log :
          i <= 128 => /\ setup_log[i].rtp_channel_id = 2 * (i - 1)
                      /\ setup_log[i].rtcp_channel_id = 2 * (i - 1) + 1
    /\ pc = "panicked" => Len(setup_log) >= 128

\* C6: a SETUP past the one-byte range ends the session instead of being
\* forwarded, and no channel id is ever given to two SETUPs.
C6_NoChannelIdReuse ==
    /\ Len(setup_log) <= 128
    /\ \A i, j \in DOMAIN setup_log :
          i < j => {setup_log[i].rtp_channel_id, setup_log[i].rtcp_channel_id}
                   \cap {setup_log[j].rtp_channel_id, setup_log[j].rtcp_channel_id} = {}

\* C7: however the control loop ends, the token has been cancelled exactly
\* once when handle_connection returns, and never while the loop runs.
C7_CancelledOnEveryExit ==
    /\ Returned => (cancelled /\ cancel_calls = 1)
    /\ Running => (~cancelled /\ cancel_calls = 0)

\* C8: when the session is over, a TEARDOWN was sent if and only if a
\* non-empty session id had been captured.
C8_TeardownIffSessionId ==
    Returned => ((n_teardowns >= 1) <=> (session_id # None /\ session_id[1] # <<>>))

\* C9: the gateway makes up at most one TEARDOWN per session, only after the
\* loop, after the token is cancelled, only with a captured session id, which
\* the TEARDOWN carries.
C9_TeardownOnceAfterCancel ==
    /\ n_teardowns <= 1
    /\ n_teardowns = 0 => ~(last_write # None /\ last_write[1].kind = "teardown")
    /\ n_teardowns = 1 =>
          /\ pc = "done"
          /\ cancelled
          /\ session_id # None
          /\ last_write # None
          /\ last_write[1].to = "origin"
          /\ last_write[1].kind = "teardown"
          /\ last_write[1].msg.method = "TEARDOWN"
          /\ last_write[1].msg.headers["Session"] = session_id[1]

\* A TEARDOWN has been sent for the captured session "12345678".
C9_Witness ==
    /\ n_teardowns = 1
    /\ session_id = Some(<<"12345678">>)
    /\ last_write[1].kind = "teardown"

\* C10: once the token is cancelled no relay hands a further datagram to the
\* transport, whatever the relay was doing when the token was cancelled.
C10_NoDatagramAfterCancel == [][cancelled => n_dgrams' = n_dgrams]_vars

\* C11: a failed write of a request to the origin, or of a response to the
\* browser, ends the control loop: the step that fails goes to the cleanup,
\* and no read or write follows it.
C11_WriteFailureIsFatal ==
    (/\ last_write # None
     /\ last_write[1].kind = "forward"
     /\ ~last_write[1].ok)
    => pc = "cleanup"

\* C12: the requests written to the origin are a prefix of the requests
\* received from the browser, and the responses written to the browser a
\* prefix of those received from the origin: no message is written to a peer
\* after a message for that peer was taken from the buffer and not written.
C12_OrderedGapFreeForwarding ==
    (/\ last_write # None
     /\ last_write[1].kind = "forward"
     /\ last_write[1].ok)
    => ~lost[last_write[1].to]

\* C13: the session id is write-once.  It stays unset until a response with a
\* Session header is processed, is then set to that header's value cut at the
\* first ";", and no later step changes it, whatever Session value later
\* responses carry.
C13_SessionIdWriteOnce ==
    [][LET processing == /\ pc = "drain_resp"
                         /\ pc' = "write_resp"
           bears == "Session" \in DOMAIN Head(tcp_buf).headers
           v == Head(tcp_buf).headers["Session"]
           s == session_id'[1]
       IN /\ session_id # None => session_id' = session_id
          /\ (session_id = None /\ session_id' # None) =>
                /\ processing
                /\ bears
                /\ Len(s) <= Len(v)
                /\ s = SubSeq(v, 1, Len(s))
                /\ \A k \in DOMAIN s : s[k] # ";"
                /\ Len(s) < Len(v) => v[Len(s) + 1] = ";"
          /\ (session_id = None /\ processing /\ bears) => session_id' # None
      ]_vars

\* The id "12345678" was captured, and a later response with another Session
\* value (an empty one) has been processed without changing it.
C13_Witness ==
    /\ session_id = Some(<<"12345678">>)
    /\ cur_resp # None
    /\ "Session" \in DOMAIN cur_resp[1].orig.headers
    /\ cur_resp[1].orig.headers["Session"] = <<>>

\* C14: on both backends a failed send of a datagram ends the relay with an
\* error: a relay that leaves send_datagram without its datagram having been
\* handed to the transport has returned Err.
C14_RelayEndsOnSendFailure ==
    [][\A i \in DOMAIN relays :
          (/\ relays[i].state \in {"sending", "locked"}
           /\ relays'[i].state \notin {"sending", "locked"}
           /\ n_dgrams' = n_dgrams)
          => relays'[i].state = "returned_err"
      ]_vars

\* C15: datagram framing.  For a received packet of n bytes a relay with
\* channel id c builds a payload of n + 1 bytes, c first and the packet after
\* it in order, and each datagram handed to the transport is that payload,
\* handed over once.
C15_DatagramFraming ==
    [][LET Framed(r) ==
               /\ Len(r.payload) = Len(r.buf) + 1
               /\ r.payload[1] = r.channel_id
               /\ \A k \in 1..Len(r.buf) : r.payload[k + 1] = r.buf[k]
           Submitting(r) == r.state \in {"sending", "locked"}
       IN /\ \A i \in DOMAIN relays : Submitting(relays'[i]) => Framed(relays'[i])
          /\ n_dgrams' # n_dgrams =>
                /\ n_dgrams' = n_dgrams + 1
                /\ dgram_last' # None
                /\ LET d == dgram_last'[1]
                   IN /\ Submitting(relays[d.relay])
                      /\ d.payload = relays[d.relay].payload
                      /\ ~Submitting(relays'[d.relay])
      ]_vars

\* The relay of channel 1 has received the packet aa bb cc dd and the
\* transport was handed the datagram 01 aa bb cc dd.
C15_Witness ==
    /\ n_dgrams >= 1
    /\ dgram_last # None
    /\ relays[dgram_last[1].relay].channel_id = 1
    /\ relays[dgram_last[1].relay].buf = <<170, 187, 204, 221>>
    /\ dgram_last[1].payload = <<1, 170, 187, 204, 221>>

\* C16: on the WebSocket backend a control frame that is neither text nor
\* close is skipped: the step that reads it appends nothing to the buffer and
\* leaves the control loop running.
C16_OtherFramesSkipped ==
    [][skipped_frames' # skipped_frames => (wt_buf' = wt_buf /\ pc' = "loop")]_vars

\* C17: partial input.  For a well-formed first message m of the stream, parse
\* on a strict prefix of m returns incomplete (no error, no message, nothing
\* consumed), and the message it returns for m has consumed Len(m) bytes.
C17_PartialInput ==
    WellFormed(codec_stream[1]) =>
        /\ (codec_out = <<>> /\ codec_res \in {"incomplete", "error"}) =>
              /\ codec_res = "incomplete"
              /\ codec_read < Len(Bytes(codec_stream[1]))
              /\ codec_adv = 0
        /\ codec_out # <<>> => codec_out[1].consumed = Len(Bytes(codec_stream[1]))

\* C18: pipelining.  Draining a buffer of k well-formed messages yields the k
\* messages in order, each with its own length consumed, no error, and ends
\* with parse returning incomplete on an empty remainder.
C18_Pipelining ==
    (\A i \in DOMAIN codec_stream : WellFormed(codec_stream[i])) =>
        /\ codec_res # "error"
        /\ Len(codec_out) <= Len(codec_stream)
        /\ \A i \in DOMAIN codec_out :
              /\ codec_out[i].consumed = Len(Bytes(codec_stream[i]))
              /\ codec_out[i].msg = RtspParse(codec_side, Bytes(codec_stream[i])).msg
        /\ (codec_read = Len(Concat(codec_stream)) /\ codec_res = "incomplete") =>
              /\ Len(codec_out) = Len(codec_stream)
              /\ codec_adv = codec_read

\* C19: codec round trip.  A message that parse returned, serialised by
\* to_bytes in any iteration order of its header map and parsed again, gives
\* an equal message (start line fields, header map, body) and consumes all
\* the serialised bytes.
C19_RoundTrip ==
    codec_rt # None =>
        /\ codec_rt[1].again.kind = "message"
        /\ codec_rt[1].again.msg = codec_rt[1].orig
        /\ codec_rt[1].again.consumed = Len(codec_rt[1].bytes)

\* A message with the body "v=0" and two headers went through the round
\* trip with Content-Length serialised first, which is not its order on the wire.
C19_Witness ==
    /\ codec_rt # None
    /\ codec_rt[1].orig.body = "v=0"
    /\ DOMAIN codec_rt[1].orig.headers = {"CSeq", "Content-Length"}
    /\ codec_rt[1].order = <<"Content-Length", "CSeq">>
    /\ codec_rt[1].again.kind = "message"

\* C20: header names are matched in any letter case: the body of a well-formed
\* message is taken in the length its Content-Length header gives, however
\* the name of that header is spelled.
C20_HeaderNamesCaseInsensitive ==
    (codec_out # <<>> /\ WellFormed(codec_stream[1])) =>
        codec_out[1].msg.body = codec_stream[1].body

\* C21: each pop of a pending setup spawns two relays, the first on the RTP
\* socket with the RTP channel id of the popped record and the second on its
\* RTCP socket with its RTCP channel id, so that after m matched responses
\* there are 2m relays, and no two relays of the session share a channel id.
C21_TwoRelaysPerPop ==
    LET m == Len(setup_log) - Len(pending_setups)
    IN /\ Len(relays) = 2 * m
       /\ \A k \in 1..m :
             /\ relays[2 * k - 1].channel_id = setup_log[k].rtp_channel_id
             /\ relays[2 * k - 1].port = setup_log[k].rtp_port
             /\ relays[2 * k].channel_id = setup_log[k].rtcp_channel_id
             /\ relays[2 * k].port = setup_log[k].rtcp_port
       /\ \A i, j \in DOMAIN relays :
             i # j => relays[i].channel_id # relays[j].channel_id

\* C22: only matched setups produce media.  A datagram tagged with channel id
\* c is emitted only when a 200 response with a Transport header has been
\* received and matched to (has popped) the SETUP that was given c, and no
\* datagram carries a channel id of a SETUP that is still pending, while the
\* session runs or after it has ended.
C22_OnlyMatchedSetupsProduceMedia ==
    LET m == Len(setup_log) - Len(pending_setups)
        Ids(s) == {s.rtp_channel_id, s.rtcp_channel_id}
    IN /\ dgram_last = None => n_dgrams = 0
       /\ dgram_last # None =>
             LET c == Head(dgram_last[1].payload)
             IN /\ \E k \in 1..m : k <= n_xport /\ c \in Ids(setup_log[k])
                /\ \A k \in (m + 1)..Len(setup_log) : c \notin Ids(setup_log[k])
                /\ \A k \in DOMAIN pending_setups : c \notin Ids(pending_setups[k])

\* A session that has ended with one SETUP matched and one still pending, and
\* a datagram of the matched one emitted.
C22_Witness ==
    /\ pc = "done"
    /\ Len(setup_log) = 2
    /\ Len(pending_setups) = 1
    /\ n_xport = 1
    /\ dgram_last # None
    /\ Head(dgram_last[1].payload) = 1

\* C23: frame condition for traffic that is not a SETUP exchange.  A request
\* whose method is not SETUP, and a response that is not 200 or has no
\* Transport header, is forwarded with its headers unmodified: the bytes
\* written carry the header fields of the bytes received, each as often as it
\* was received.
C23_HeadersForwardedUnmodified ==
    codec_rt # None =>
        LET rt == codec_rt[1]
            consumed == codec_out[Len(codec_out)].consumed
            received == SubSeq(Concat(codec_stream), codec_adv - consumed + 1, codec_adv)
            Fields(b) == LET ls == Tail(HeaderLinesOf(b))
                         IN [i \in DOMAIN ls |->
                                LET kv == SplitOnce(ls[i], ":")
                                IN IF kv = None THEN <<ls[i]>>
                                   ELSE <<Trim(kv[1][1]), Trim(kv[1][2])>>]
            Count(f, x) == Cardinality({i \in DOMAIN f : f[i] = x})
            in == Fields(received)
            out == Fields(rt.bytes)
            NotSetupTraffic ==
                IF codec_side = "request" THEN rt.orig.method # "SETUP"
                ELSE rt.orig.status_code # 200 \/ "Transport" \notin DOMAIN rt.orig.headers
        IN ((\E m \in WellFormedRequests \cup WellFormedResponses : Bytes(m) = received)
            /\ NotSetupTraffic)
           => \A x \in {in[i] : i \in DOMAIN in} \cup {out[i] : i \in DOMAIN out} :
                 Count(in, x) = Count(out, x)

\* C24: relay failure isolation.  When a relay ends because its receive or
\* its send failed, the step leaves the control loop where it was, with its
\* pending queue, channel allocator, session id and token unchanged, the
\* token not cancelled by it, and every other relay in the state it was in.
C24_RelayFailureIsolated ==
    [][\A i \in DOMAIN relays :
          (relays[i].state # "returned_err" /\ relays'[i].state = "returned_err")
          => /\ UNCHANGED <<pc, pending_setups, next_channel_id, session_id,
                            cancelled, cancel_calls>>
             /\ Len(relays') = Len(relays)
             /\ \A j \in DOMAIN relays : j # i => relays'[j] = relays[j]
      ]_vars

\* The RTP relay of a session has ended with an error while the control loop
\* runs, the token is not cancelled, and the RTCP relay has since delivered
\* a datagram.
C24_Witness ==
    /\ pc = "loop"
    /\ ~cancelled
    /\ Len(relays) = 2
    /\ relays[1].state = "returned_err"
    /\ relays[2].state = "select"
    /\ dgram_last # None
    /\ dgram_last[1].relay = 2
    /\ pending_setups # <<>>

\* C27: announcement before media.  A relay hands a datagram to the transport
\* only after the SETUP response that announces its channel id has been
\* written to the browser: no relay spawned for the response that is still
\* waiting to be written emits a datagram.
C27_AnnouncementBeforeMedia ==
    [][n_dgrams' # n_dgrams =>
          LET i == dgram_last'[1].relay
              k == (i + 1) \div 2
              m == Len(setup_log) - Len(pending_setups)
              Unwritten == /\ pc = "write_resp"
                           /\ cur_resp # None
                           /\ IsSetupResponse(cur_resp[1].orig)
                           /\ k = m
          IN ~Unwritten
      ]_vars

\* C25: rendezvous pairing.  When the connections that have gone through the
\* registry for a session id are one control connection (with its rtsp
\* parameter) and one data connection, in either order, exactly one proxy
\* session has been started for them, with the control connection as the
\* control channel, the data connection as the data channel and the rtsp URL
\* of the control connection, and the registry holds no entry for the id; and
\* an entry of the registry always holds the one connection waiting under it.
C25_RendezvousPairing ==
    LET Handled(sid) == {c \in DOMAIN conns : /\ conns[c].session_id = Some(sid)
                                              /\ conns[c].outcome # "handshaken"}
        IsData(c) == ConnType(conns[c]) = "data"
        IsControl(c) == ConnType(conns[c]) # "data" /\ conns[c].rtsp # None
        SessionsOf(sid) == {i \in DOMAIN started :
                               conns[started[i].control].session_id = Some(sid)}
    IN /\ \A sid \in {"s1", "s2"} : \A c, d \in Handled(sid) :
             (Handled(sid) = {c, d} /\ IsControl(c) /\ IsData(d))
             => /\ Cardinality(SessionsOf(sid)) = 1
                /\ \A i \in SessionsOf(sid) :
                      started[i] = [control |-> c, data |-> d,
                                    rtsp_url |-> conns[c].rtsp[1]]
                /\ sid \notin DOMAIN registry
       /\ \A sid \in DOMAIN registry :
             /\ conns[registry[sid].socket].session_id = Some(sid)
             /\ conns[registry[sid].socket].outcome = "waiting"
             /\ \A i \in DOMAIN started :
                   registry[sid].socket \notin {started[i].control, started[i].data}

\* The data connection of s1 went through the registry first and waited, the
\* control connection, which has no type parameter, came second, and the
\* session was started with the URL of the control connection.
C25_Witness ==
    /\ Len(conns) >= 2
    /\ conns[1].session_id = Some("s1") /\ conns[1].type = None
    /\ conns[1].outcome = "paired"
    /\ conns[2].session_id = Some("s1") /\ ConnType(conns[2]) = "data"
    /\ conns[2].outcome = "waiting"
    /\ started = <<[control |-> 1, data |-> 2, rtsp_url |-> "rtsp://b"]>>
    /\ "s1" \notin DOMAIN registry

\* C26: a rejected connection leaves the registry unchanged.  A duplicate
\* control connection, a duplicate data connection, and a control connection
\* without an rtsp parameter are rejected, and the entry that was waiting under
\* the session id is still registered afterwards.
C26_RejectionLeavesRegistry ==
    [][\A c \in DOMAIN conns :
          (conns[c].outcome = "handshaken" /\ conns'[c].outcome = "rejected")
          => registry' = registry
      ]_vars

====
